---- MODULE Spec2Model ----
(***************************************************************************)
(* Model of src/etl_pyspark.py: the batch ETL that extracts the flat sales *)
(* dataset, cleanses it (transformar_dados), derives the four dimensions   *)
(* and loads the star schema (carregar_dados) with the write / read-back / *)
(* join / write protocol.                                                  *)
(*                                                                         *)
(* A DataFrame is a sequence of records (a bag: no definition depends on   *)
(* the order).  A nullable column holds <<>> (null) or <<v>>.  Each        *)
(* statement of carregar_dados is one atomic step that takes effect where  *)
(* it stands in the text; the warehouse gives every row of a dimension     *)
(* table a surrogate key when the row is written.  Variables marked        *)
(* "history" record what happened and are read by no action's guard.       *)
(***************************************************************************)
EXTENDS Integers, Sequences, FiniteSets, TLC

\* ------------------------------------------------------------------ bounds
\* Rows of the source dataset when the runs follow one another.
MaxLinhas == 3
\* Rows of the source dataset when the runs overlap.
MaxLinhasC == 1
\* Rows of the source dataset in the runs that only transform.
MaxLinhasT == 4

\* --------------------------------------------------------- nullable values
Null == <<>>
Some(v) == <<v>>
Val(c) == c[1]

\* ------------------------------------------------------------- source rows
DataIso(a, m, d) == Some([fmt |-> "yyyy-MM-dd", a |-> a, m |-> m, d |-> d])
DataBr(a, m, d) == Some([fmt |-> "dd/MM/yyyy", a |-> a, m |-> m, d |-> d])

\* One row of the consolidated query (preco_venda and custo_compra_unitario
\* in thousandths of the currency unit).
Linha(venda, data, prod, nprod, cli, ncli, idade, genero, loc, estado, custo) ==
  [id_venda |-> venda, data_venda |-> data,
   id_produto |-> prod, qtd_vendida |-> 3, preco_venda |-> 10005,
   nome_produto |-> nprod, nome_categoria_produto |-> "Papelaria",
   id_cliente |-> cli, nome_cliente |-> ncli, idade |-> idade,
   genero |-> genero, nome_categoria_cliente |-> "Varejo",
   id_localidade |-> loc, cidade |-> "Cidade", estado |-> estado,
   regiao |-> "Sudeste", custo_compra_unitario |-> custo]

\* The rows a source dataset is drawn from.
Paleta ==
  << Linha(1, DataIso(2024, 1, 15), 10, Some("Caneta"), 100, "Ana",
           Some(20), Some("F"), 1, "sp", Some(1500)),
     Linha(2, DataIso(2024, 2, 30), 10, Some("Caneta"), 100, "Ana",
           Some(20), Some("F"), 1, "sp", Some(1500)),
     Linha(3, DataIso(2024, 4, 1), 11, Null, 101, "Bia",
           Null, Null, 2, "RJ", Null),
     Linha(4, DataIso(2024, 4, 1), 12, Some("Lapis"), 102, "Caio",
           Some(60), Some("M"), 1, "SP", Some(2000)),
     Linha(5, DataIso(2024, 1, 15), 10, Some("Caneta"), 100, "Ana Maria",
           Some(40), Some("X"), 1, "SP", Some(1500)),
     Linha(6, Null, 11, Null, 103, "Davi",
           Some(45), Some("Não informado"), 2, "rj", Null),
     Linha(7, DataBr(2024, 1, 15), 12, Some("Lapis"), 101, "Bia",
           Null, Null, 2, "RJ", Some(2000)) >>

\* The datasets of at most n rows (one sequence for each bag of rows).
Datasets(n) ==
  UNION { { [i \in 1..k |-> Paleta[ix[i]]] :
            ix \in { s \in [1..k -> 1..Len(Paleta)] :
                     \A i \in 1..k, j \in 1..k : i < j => s[i] <= s[j] } } :
          k \in 0..n }

\* ------------------------------------------------------ DataFrame helpers
Range(s) == { s[i] : i \in 1..Len(s) }

\* --------------------------------------------------- transformar_dados
IdadePadrao == 35
GeneroPadrao == "Não informado"
ProdutoPadrao == "Produto não informado"
CustoPadrao == 0

\* df.select("idade").na.drop(): the non-null ages, one per row.
IdadesNaoNulas(df) ==
  LET comIdade == SelectSeq(df, LAMBDA l : l.idade # Null)
  IN  [i \in 1..Len(comIdade) |-> Val(comIdade[i].idade)]

\* agg({"idade": "median"}): null on no rows, else the middle value or the
\* mean of the two middle values, here as TWICE the median (an integer).
idade_mediana(df) ==
  LET s == SortSeq(IdadesNaoNulas(df), LAMBDA a, b : a < b)
      n == Len(s)
  IN  IF n = 0 THEN Null
      ELSE IF n % 2 = 1 THEN Some(2 * s[(n + 1) \div 2])
      ELSE Some(s[n \div 2] + s[n \div 2 + 1])

\* int(idade_mediana) if idade_mediana is not None else 35
IdadePreenchimento(med) == IF med # Null THEN Val(med) \div 2 ELSE IdadePadrao

Fill(c, v) == IF c = Null THEN Some(v) ELSE c

\* df.na.fill({...}) on one row
NaFill(l, idade) ==
  [l EXCEPT !.idade = Fill(@, idade),
            !.genero = Fill(@, GeneroPadrao),
            !.nome_produto = Fill(@, ProdutoPadrao),
            !.custo_compra_unitario = Fill(@, CustoPadrao)]

\* Mutant: the chain of when() without its otherwise(), which yields null.
PadronizarGeneroSemOtherwise(g) ==
  IF g = Null THEN Null
  ELSE IF Val(g) = "M" THEN Some("Masculino")
  ELSE IF Val(g) = "F" THEN Some("Feminino")
  ELSE Null

\* when(genero == "M", "Masculino").when(genero == "F", "Feminino")
\*   .otherwise(genero); a null compares to nothing and stays null.
PadronizarGenero(g) ==
  IF g = Null THEN Null
  ELSE IF Val(g) = "M" THEN Some("Masculino")
  ELSE IF Val(g) = "F" THEN Some("Feminino")
  ELSE g

\* f.upper on the state codes of the source
Upper(e) ==
  CASE e = "sp" -> "SP"
    [] e = "rj" -> "RJ"
    [] OTHER -> e

Bissexto(a) == (a % 4 = 0 /\ a % 100 # 0) \/ a % 400 = 0

DiasNoMes(a, m) ==
  IF m = 2 THEN (IF Bissexto(a) THEN 29 ELSE 28)
  ELSE IF m \in {4, 6, 9, 11} THEN 30 ELSE 31

\* Mutant: a lenient parser that takes any day from 1 to 31 in any month.
ToDateLeniente(c) ==
  IF c = Null THEN Null
  ELSE LET t == Val(c)
       IN  IF t.fmt = "yyyy-MM-dd" /\ t.m \in 1..12 /\ t.d \in 1..31
           THEN Some([ano |-> t.a, mes |-> t.m, dia |-> t.d])
           ELSE Null

\* f.to_date(col, "yyyy-MM-dd"): null on null, on a text in another
\* format and on a text that names no calendar day.
ToDate(c) ==
  IF c = Null THEN Null
  ELSE LET t == Val(c)
       IN  IF /\ t.fmt = "yyyy-MM-dd"
              /\ t.m \in 1..12
              /\ t.d \in 1..DiasNoMes(t.a, t.m)
           THEN Some([ano |-> t.a, mes |-> t.m, dia |-> t.d])
           ELSE Null

\* f.round(x, 2): qtd * preco is in thousandths, the result in hundredths,
\* rounded half up.
Round2(milesimos) == (milesimos + 5) \div 10

\* lines 59-81 up to the date filter, on one row
Limpar(l, idade) ==
  LET a == NaFill(l, idade)
      b == [a EXCEPT !.genero = PadronizarGenero(@),
                     !.estado = Upper(@),
                     !.data_venda = ToDate(@)]
  IN  b

\* df.na.drop(subset=["data_venda"])
NaDropData(df) == SelectSeq(df, LAMBDA l : l.data_venda # Null)

ValorTotal(l) == l @@ ("valor_total" :> Round2(l.qtd_vendida * l.preco_venda))

\* Mutant: the median taken after the rows with invalid dates are gone.
LinhasDaMedianaValidas(df) ==
  SelectSeq(df, LAMBDA l : ToDate(l.data_venda) # Null)

\* The rows the median is taken over: df as transformar_dados receives it
\* (line 59 runs before the drop of line 78).
LinhasDaMediana(df) == df

\* lines 59-81: the cleansed fact-candidate dataset
DfLimpo(df) ==
  LET idade == IdadePreenchimento(idade_mediana(LinhasDaMediana(df)))
      limpo == [i \in 1..Len(df) |-> Limpar(df[i], idade)]
      datado == NaDropData(limpo)
  IN  [i \in 1..Len(datado) |-> ValorTotal(datado[i])]

DimCliente(df) ==
  { [id_cliente |-> l.id_cliente, nome_cliente |-> l.nome_cliente,
     idade |-> l.idade, genero |-> l.genero,
     nome_categoria_cliente |-> l.nome_categoria_cliente] : l \in Range(df) }

DimProduto(df) ==
  { [id_produto |-> l.id_produto, nome_produto |-> l.nome_produto,
     nome_categoria_produto |-> l.nome_categoria_produto] : l \in Range(df) }

DimLocalidade(df) ==
  { [id_localidade |-> l.id_localidade, cidade |-> l.cidade,
     estado |-> l.estado, regiao |-> l.regiao] : l \in Range(df) }

DimTempo(df) ==
  { [data_venda |-> d, ano |-> Val(d).ano, mes |-> Val(d).mes,
     dia |-> Val(d).dia, trimestre |-> (Val(d).mes - 1) \div 3 + 1] :
    d \in { l.data_venda : l \in Range(df) } }

\* transformar_dados: the five DataFrames it returns
transformar_dados(df) ==
  LET limpo == DfLimpo(df)
  IN  [dim_cliente |-> DimCliente(limpo),
       dim_produto |-> DimProduto(limpo),
       dim_localidade |-> DimLocalidade(limpo),
       dim_tempo |-> DimTempo(limpo),
       df |-> limpo]

\* ------------------------------------------------------------ warehouse
Dims == {"dim_cliente", "dim_produto", "dim_localidade", "dim_tempo"}

ChaveDe(t) ==
  CASE t = "dim_cliente" -> "id_cliente"
    [] t = "dim_produto" -> "id_produto"
    [] t = "dim_localidade" -> "id_localidade"
    [] t = "dim_tempo" -> "data_venda"

SkDe(t) ==
  CASE t = "dim_cliente" -> "sk_cliente"
    [] t = "dim_produto" -> "sk_produto"
    [] t = "dim_localidade" -> "sk_localidade"
    [] t = "dim_tempo" -> "sk_tempo"

RECURSIVE Enumerar(_)
Enumerar(S) ==
  IF S = {} THEN <<>>
  ELSE LET x == CHOOSE y \in S : TRUE IN <<x>> \o Enumerar(S \ {x})

\* The warehouse numbers the rows of one write: the serial goes on from
\* base (0 where an overwrite recreates the table and its serial, the last
\* key where it empties the table), one key per row.  The rows arrive in one order; a surrogate key is
\* an opaque name, and another order only renames the keys of this write.
Atribuicao(linhas, base) ==
  LET e == Enumerar(linhas)
  IN  [l \in linhas |-> base + (CHOOSE k \in 1..Len(e) : e[k] = l)]

\* Mutants: mode="append".
OverwriteDimAppend(antigas, novas) == antigas \cup novas

OverwriteFatoAppend(antigas, novas) == antigas \o novas

\* write.jdbc(table=t, mode="overwrite"): the table holds the written rows
\* and nothing else.
OverwriteDim(antigas, novas) == novas

OverwriteFato(antigas, novas) == novas

ComSk(linhas, t, f) == { l @@ (SkDe(t) :> f[l]) : l \in linhas }

\* ----------------------------------------------------- carregar_dados
RECURSIVE PorSk(_, _)
PorSk(S, sk) ==
  IF S = {} THEN <<>>
  ELSE LET m == CHOOSE d \in S : \A e \in S : d[sk] <= e[sk]
       IN  <<m>> \o PorSk(S \ {m}, sk)

\* The rows of dim that one row of the left side joins with.
Corresp(l, dim, chave) == { d \in dim : d[chave] = l[chave] }

\* Mutant: a left join, which keeps an unmatched row with no key (0).
JoinLinhaEsquerda(l, dim, chave, sk) ==
  LET m == PorSk(Corresp(l, dim, chave), sk)
  IN  IF Len(m) = 0 THEN << l @@ (sk :> 0) >>
      ELSE [k \in 1..Len(m) |-> l @@ (sk :> m[k][sk])]

\* One row of the left side joined: one output row per matching row of
\* dim, none when nothing matches (inner join).
JoinLinha(l, dim, chave, sk) ==
  LET m == PorSk(Corresp(l, dim, chave), sk)
  IN  [k \in 1..Len(m) |-> l @@ (sk :> m[k][sk])]

RECURSIVE JoinDe(_, _, _, _, _)
JoinDe(i, esq, dim, chave, sk) ==
  IF i > Len(esq) THEN <<>>
  ELSE JoinLinha(esq[i], dim, chave, sk) \o JoinDe(i + 1, esq, dim, chave, sk)

\* esq.join(dim, chave)
Join(esq, dim, t) == JoinDe(1, esq, dim, ChaveDe(t), SkDe(t))

Projetar(l) ==
  [sk_cliente |-> l.sk_cliente, sk_produto |-> l.sk_produto,
   sk_localidade |-> l.sk_localidade, sk_tempo |-> l.sk_tempo,
   id_venda |-> l.id_venda, qtd_vendida |-> l.qtd_vendida,
   preco_venda |-> l.preco_venda, valor_total |-> l.valor_total,
   custo_compra_unitario |-> l.custo_compra_unitario]

\* lines 116-131: the four joins and the projection
FatoVendas(df, sks) ==
  LET j == Join(Join(Join(Join(df, sks["dim_cliente"], "dim_cliente"),
                          sks["dim_produto"], "dim_produto"),
                     sks["dim_localidade"], "dim_localidade"),
                sks["dim_tempo"], "dim_tempo")
  IN  [i \in 1..Len(j) |-> Projetar(j[i])]

\* ------------------------------------------------------------------ state
Execucoes == {1, 2}

VARIABLES
  origem,       \* the rows the consolidated query returns now
  alterada,     \* the operational store changed since the start
  pc,           \* each run's next statement
  df_origem,    \* each run's extracted DataFrame
  tr,           \* each run's result of transformar_dados
  sks,          \* each run's dim_*_sk DataFrames (the read-back)
  fato_vendas,  \* each run's joined and projected fact DataFrame
  saida,        \* each run's printed milestones
  dw,           \* the warehouse tables
  dw_seq,       \* the warehouse's last surrogate key per dimension table
  reinicia,     \* the warehouse restarts a table's serial on overwrite
  feitos,       \* history: the statements each run has completed
  publicado,    \* history: the rows, with keys, each run wrote per dimension
  sozinha,      \* history: no other run was under way during this run
  pre_fato,     \* history: the fact table when each run began
  falhou_em,    \* history: the statement at which each run failed
  apos          \* history: the warehouse tables at each run's end

vars == <<origem, alterada, pc, df_origem, tr, sks, fato_vendas, saida, dw,
          dw_seq, reinicia, feitos, publicado, sozinha, pre_fato,
          falhou_em, apos>>

locais == <<df_origem, tr, sks, fato_vendas>>
historia == <<publicado, sozinha, pre_fato, falhou_em, apos>>

Vazias == [t \in Dims |-> {}]

\* The statements of main and carregar_dados in program order.
Roteiro ==
  << "extrair", "transformar",
     "w_dim_cliente", "w_dim_produto", "w_dim_localidade", "w_dim_tempo",
     "r_dim_cliente", "r_dim_produto", "r_dim_localidade", "r_dim_tempo",
     "join", "w_fato_vendas", "concluir", "fim" >>

\* Mutant: the customer read-back moved ahead of the last dimension write.
SeguinteTrocado(p) ==
  LET trocado ==
        << "extrair", "transformar",
           "w_dim_cliente", "w_dim_produto", "w_dim_localidade",
           "r_dim_cliente", "w_dim_tempo",
           "r_dim_produto", "r_dim_localidade", "r_dim_tempo",
           "join", "w_fato_vendas", "concluir", "fim" >>
      i == CHOOSE k \in 1..Len(trocado) : trocado[k] = p
  IN  trocado[i + 1]

Seguinte(p) ==
  LET i == CHOOSE k \in 1..Len(Roteiro) : Roteiro[k] = p
  IN  Roteiro[i + 1]

\* What is printed once statement p is done.
Mensagem(p) ==
  CASE p = "extrair" -> <<"Extração concluída.">>
    [] p = "transformar" -> <<"Transformação concluída.">>
    [] p = "w_dim_tempo" -> <<"Dimensões carregadas com sucesso.">>
    [] p = "w_fato_vendas" -> <<"Tabela de fatos carregada com sucesso.">>
    [] p = "concluir" -> <<"Carga concluída.">>
    [] OTHER -> <<>>

Avancar(r, p) ==
  /\ pc' = [pc EXCEPT ![r] = Seguinte(p)]
  /\ saida' = [saida EXCEPT ![r] = @ \o Mensagem(p)]
  /\ feitos' = [feitos EXCEPT ![r] = @ \cup {p}]

InitComum ==
  /\ alterada = FALSE
  /\ pc = [r \in Execucoes |-> "inicio"]
  /\ df_origem = [r \in Execucoes |-> <<>>]
  /\ tr = [r \in Execucoes |-> transformar_dados(<<>>)]
  /\ sks = [r \in Execucoes |-> Vazias]
  /\ fato_vendas = [r \in Execucoes |-> <<>>]
  /\ saida = [r \in Execucoes |-> <<>>]
  /\ dw = [t \in Dims \cup {"fato_vendas"} |->
            IF t = "fato_vendas" THEN <<>> ELSE {}]
  /\ dw_seq = [t \in Dims |-> 0]
  /\ reinicia \in BOOLEAN
  /\ feitos = [r \in Execucoes |-> {}]
  /\ publicado = [r \in Execucoes |-> Vazias]
  /\ sozinha = [r \in Execucoes |-> TRUE]
  /\ pre_fato = [r \in Execucoes |-> <<>>]
  /\ falhou_em = [r \in Execucoes |-> "nenhum"]
  /\ apos = [r \in Execucoes |-> <<>>]

Init == origem \in Datasets(MaxLinhasC) /\ InitComum

InitSeq == origem \in Datasets(MaxLinhas) /\ InitComum

InitT == origem \in Datasets(MaxLinhasT) /\ InitComum

\* ---------------------------------------------------------------- actions
\* Run q is not between its start and its end.
Parada(q) == pc[q] \in {"inicio", "fim", "abort"}

\* main is started (lines 138-149); the runs are numbered as they begin.
Iniciar(r) ==
  /\ pc[r] = "inicio"
  /\ \A q \in Execucoes : q < r => pc[q] # "inicio"
  /\ pc' = [pc EXCEPT ![r] = "extrair"]
  /\ pre_fato' = [pre_fato EXCEPT ![r] = dw.fato_vendas]
  /\ sozinha' = [q \in Execucoes |->
                   IF q = r THEN \A o \in Execucoes \ {r} : Parada(o)
                   ELSE sozinha[q] /\ Parada(q)]
  /\ UNCHANGED <<origem, alterada, locais, saida, dw, dw_seq, reinicia,
                 feitos, publicado, falhou_em, apos>>

\* A run is started while no other run is between its start and its end.
IniciarSozinha(r) ==
  /\ \A q \in Execucoes \ {r} : Parada(q)
  /\ Iniciar(r)

\* extrair_dados (line 152)
Extrair(r) ==
  /\ pc[r] = "extrair"
  /\ df_origem' = [df_origem EXCEPT ![r] = origem]
  /\ Avancar(r, "extrair")
  /\ UNCHANGED <<origem, alterada, tr, sks, fato_vendas, dw, dw_seq,
                 reinicia, historia>>

\* transformar_dados (line 156)
Transformar(r) ==
  /\ pc[r] = "transformar"
  /\ tr' = [tr EXCEPT ![r] = transformar_dados(df_origem[r])]
  /\ Avancar(r, "transformar")
  /\ UNCHANGED <<origem, alterada, df_origem, sks, fato_vendas, dw, dw_seq,
                 reinicia, historia>>

\* dim.write.jdbc(table=t, mode="overwrite") (lines 101-104)
EscreverDim(r, t, p) ==
  /\ pc[r] = p
  /\ LET base == IF reinicia THEN 0 ELSE dw_seq[t]
         novas == ComSk(tr[r][t], t, Atribuicao(tr[r][t], base))
     IN  /\ dw' = [dw EXCEPT ![t] = OverwriteDim(@, novas)]
         /\ dw_seq' = [dw_seq EXCEPT ![t] = base + Cardinality(novas)]
         /\ publicado' = [publicado EXCEPT ![r][t] = novas]
  /\ Avancar(r, p)
  /\ UNCHANGED <<origem, alterada, locais, reinicia, sozinha, pre_fato,
                 falhou_em, apos>>

EscreverDimCliente(r) == EscreverDim(r, "dim_cliente", "w_dim_cliente")
EscreverDimProduto(r) == EscreverDim(r, "dim_produto", "w_dim_produto")
EscreverDimLocalidade(r) == EscreverDim(r, "dim_localidade", "w_dim_localidade")
EscreverDimTempo(r) == EscreverDim(r, "dim_tempo", "w_dim_tempo")

\* spark.read.jdbc(table=t) (lines 110-113)
LerDim(r, t, p) ==
  /\ pc[r] = p
  /\ sks' = [sks EXCEPT ![r][t] = dw[t]]
  /\ Avancar(r, p)
  /\ UNCHANGED <<origem, alterada, df_origem, tr, fato_vendas, dw, dw_seq,
                 reinicia, historia>>

LerDimCliente(r) == LerDim(r, "dim_cliente", "r_dim_cliente")
LerDimProduto(r) == LerDim(r, "dim_produto", "r_dim_produto")
LerDimLocalidade(r) == LerDim(r, "dim_localidade", "r_dim_localidade")
LerDimTempo(r) == LerDim(r, "dim_tempo", "r_dim_tempo")

\* the joins and the select (lines 116-131)
Resolver(r) ==
  /\ pc[r] = "join"
  /\ fato_vendas' = [fato_vendas EXCEPT ![r] = FatoVendas(tr[r].df, sks[r])]
  /\ Avancar(r, "join")
  /\ UNCHANGED <<origem, alterada, df_origem, tr, sks, dw, dw_seq, reinicia,
                 historia>>

\* fato_vendas.write.jdbc(table="fato_vendas", mode="overwrite") (line 134)
EscreverFato(r) ==
  /\ pc[r] = "w_fato_vendas"
  /\ dw' = [dw EXCEPT !["fato_vendas"] = OverwriteFato(@, fato_vendas[r])]
  /\ Avancar(r, "w_fato_vendas")
  /\ UNCHANGED <<origem, alterada, locais, dw_seq, reinicia, historia>>

\* carregar_dados returns to main (lines 161-163)
Concluir(r) ==
  /\ pc[r] = "concluir"
  /\ apos' = [apos EXCEPT ![r] = <<dw>>]
  /\ Avancar(r, "concluir")
  /\ UNCHANGED <<origem, alterada, locais, dw, dw_seq, reinicia, publicado,
                 sozinha, pre_fato, falhou_em>>

\* A stage raises before it takes effect (connectivity, schema mismatch);
\* there is no try/except anywhere: the exception leaves main and nothing
\* more of the run executes.
Falivel ==
  { "extrair", "transformar", "w_dim_cliente", "w_dim_produto",
    "w_dim_localidade", "w_dim_tempo", "r_dim_cliente", "r_dim_produto",
    "r_dim_localidade", "r_dim_tempo", "join", "w_fato_vendas" }

\* Mutant: the exception is swallowed and the run goes on.
FalharEContinuar(r) ==
  /\ pc[r] \in Falivel
  /\ falhou_em' = [falhou_em EXCEPT ![r] = pc[r]]
  /\ Avancar(r, pc[r])
  /\ UNCHANGED <<origem, alterada, locais, dw, dw_seq, reinicia, publicado,
                 sozinha, pre_fato, apos>>

Falhar(r) ==
  /\ pc[r] \in Falivel
  /\ pc' = [pc EXCEPT ![r] = "abort"]
  /\ falhou_em' = [falhou_em EXCEPT ![r] = pc[r]]
  /\ UNCHANGED <<origem, alterada, locais, saida, dw, dw_seq, reinicia,
                 feitos, publicado, sozinha, pre_fato, apos>>

\* The operational store loses a sale before some run has extracted.
AlterarOrigem ==
  /\ ~alterada
  /\ \E r \in Execucoes : pc[r] \in {"inicio", "extrair"}
  /\ \E i \in 1..Len(origem) :
       origem' = [k \in 1..(Len(origem) - 1) |->
                    IF k < i THEN origem[k] ELSE origem[k + 1]]
  /\ alterada' = TRUE
  /\ UNCHANGED <<pc, locais, saida, dw, dw_seq, reinicia, feitos, historia>>

Passos(r) ==
  \/ Extrair(r)
  \/ Transformar(r)
  \/ EscreverDimCliente(r)
  \/ EscreverDimProduto(r)
  \/ EscreverDimLocalidade(r)
  \/ EscreverDimTempo(r)
  \/ LerDimCliente(r)
  \/ LerDimProduto(r)
  \/ LerDimLocalidade(r)
  \/ LerDimTempo(r)
  \/ Resolver(r)
  \/ EscreverFato(r)
  \/ Concluir(r)

\* Runs that may overlap, on a store that may change.
Next ==
  \/ \E r \in Execucoes : Iniciar(r) \/ Passos(r)
  \/ AlterarOrigem

Spec == Init /\ [][Next]_vars

\* Runs one after the other on an unchanged store.
NextSeq == \E r \in Execucoes : IniciarSozinha(r) \/ Passos(r) \/ Falhar(r)

SpecSeq == InitSeq /\ [][NextSeq]_vars

\* One run of the extraction and the transformation.
NextT == \E r \in {1} : Iniciar(r) \/ Extrair(r) \/ Transformar(r)

SpecT == InitT /\ [][NextT]_vars

\* ------------------------------------------------------ claims: vocabulary
Feito(r, p) == p \in feitos[r]

\* A sale date that names no day in the format yyyy-MM-dd.
MalFormada(c) ==
  \/ c = Null
  \/ Val(c).fmt # "yyyy-MM-dd"
  \/ Val(c).m \notin 1..12
  \/ Val(c).d \notin 1..DiasNoMes(Val(c).a, Val(c).m)

\* The source rows that have a well-formed date, in the source's order.
Sobreviventes(src) == SelectSeq(src, LAMBDA l : ~MalFormada(l.data_venda))

\* The k-th smallest of the non-null ages of src, and their integer median.
ComIdade(src) == { i \in 1..Len(src) : src[i].idade # Null }

Posto(src, k) ==
  CHOOSE x \in { Val(src[i].idade) : i \in ComIdade(src) } :
    /\ Cardinality({ i \in ComIdade(src) : Val(src[i].idade) < x }) < k
    /\ Cardinality({ i \in ComIdade(src) : Val(src[i].idade) <= x }) >= k

MedianaEsperada(src) ==
  LET n == Cardinality(ComIdade(src))
  IN  IF n = 0 THEN 35
      ELSE IF n % 2 = 1 THEN Posto(src, (n + 1) \div 2)
      ELSE (Posto(src, n \div 2) + Posto(src, n \div 2 + 1)) \div 2

\* Candidate row l has no row with its natural key in some read-back table.
SemCorrespondencia(l, S) ==
  \E t \in Dims : \A d \in S[t] : d[ChaveDe(t)] # l[ChaveDe(t)]

\* Fact row f is candidate row l with the keys of read-back rows that carry
\* l's four natural keys.
ResolvidoEm(f, l, S) ==
  \E c \in S["dim_cliente"], p \in S["dim_produto"],
     o \in S["dim_localidade"], t \in S["dim_tempo"] :
    /\ c.id_cliente = l.id_cliente
    /\ p.id_produto = l.id_produto
    /\ o.id_localidade = l.id_localidade
    /\ t.data_venda = l.data_venda
    /\ f = [sk_cliente |-> c.sk_cliente, sk_produto |-> p.sk_produto,
            sk_localidade |-> o.sk_localidade, sk_tempo |-> t.sk_tempo,
            id_venda |-> l.id_venda, qtd_vendida |-> l.qtd_vendida,
            preco_venda |-> l.preco_venda, valor_total |-> l.valor_total,
            custo_compra_unitario |-> l.custo_compra_unitario]

ChavesDe(linhas, t) == { d[SkDe(t)] : d \in linhas }

\* The warehouse with surrogate keys aside: each dimension row without its
\* key, each fact row with the dimension rows its keys name.
SemSk(l, t) == [c \in (DOMAIN l) \ {SkDe(t)} |-> l[c]]

Referido(f, w, t) ==
  { SemSk(d, t) : d \in { e \in w[t] : e[SkDe(t)] = f[SkDe(t)] } }

Desreferenciar(f, w) ==
  [cliente |-> Referido(f, w, "dim_cliente"),
   produto |-> Referido(f, w, "dim_produto"),
   localidade |-> Referido(f, w, "dim_localidade"),
   tempo |-> Referido(f, w, "dim_tempo"),
   id_venda |-> f.id_venda, qtd_vendida |-> f.qtd_vendida,
   preco_venda |-> f.preco_venda, valor_total |-> f.valor_total,
   custo_compra_unitario |-> f.custo_compra_unitario]

BagDe(s) == [x \in Range(s) |-> Cardinality({ i \in 1..Len(s) : s[i] = x })]

\* The rows of a dimension table without their keys, each with its count.
BagSemSk(linhas, t) ==
  [x \in { SemSk(d, t) : d \in linhas } |->
     Cardinality({ d \in linhas : SemSk(d, t) = x })]

Conteudo(w) ==
  [dims |-> [t \in Dims |-> BagSemSk(w[t], t)],
   fato |-> BagDe([i \in 1..Len(w.fato_vendas) |->
                     Desreferenciar(w.fato_vendas[i], w)])]

\* ------------------------------------------------------------------ claims
\* C1: every fact row built by carregar_dados is a candidate row with the
\* surrogate keys of read-back dimension rows that carry the candidate's
\* four natural keys; a candidate with no match in some read-back dimension
\* gives no fact row and does not fail the run.
C1_FatosResolvidos ==
  \A r \in Execucoes :
    Feito(r, "join") =>
      LET F == fato_vendas[r]
          D == tr[r].df
      IN  /\ \A k \in 1..Len(F) :
               \E i \in 1..Len(D) : ResolvidoEm(F[k], D[i], sks[r])
          /\ \A i \in 1..Len(D) :
               SemCorrespondencia(D[i], sks[r]) =>
                 /\ \A k \in 1..Len(F) : F[k].id_venda # D[i].id_venda
                 /\ pc[r] # "abort"

\* A run ended with a candidate row that found no match and left no fact.
C1_Witness ==
  \E r \in Execucoes :
    /\ pc[r] = "fim"
    /\ \E i \in 1..Len(tr[r].df) : SemCorrespondencia(tr[r].df[i], sks[r])
    /\ Len(fato_vendas[r]) < Len(tr[r].df)

\* C2: the joins give at most one fact row per candidate row, and exactly
\* one per candidate row iff every candidate matches in all four read-back
\* dimensions.
C2_ContagemDeFatos ==
  \A r \in Execucoes :
    Feito(r, "join") =>
      LET F == fato_vendas[r]
          D == tr[r].df
      IN  /\ Len(F) <= Len(D)
          /\ Len(F) = Len(D) <=>
               \A i \in 1..Len(D) : ~SemCorrespondencia(D[i], sks[r])

\* C3: in each dimension transformar_dados returns, no two rows share the
\* natural key.
C3_ChavesNaturaisUnicas ==
  \A r \in Execucoes :
    Feito(r, "transformar") =>
      \A t \in Dims :
        \A a \in tr[r][t], b \in tr[r][t] :
          a[ChaveDe(t)] = b[ChaveDe(t)] => a = b

\* C4: transformar_dados keeps exactly the rows with a well-formed date (n
\* rows with k malformed dates give n - k candidates, the same sales), every
\* dimension row comes from a kept row, and so does every fact row.
C4_SoDatasInvalidasCaem ==
  \A r \in Execucoes :
    Feito(r, "transformar") =>
      LET src == df_origem[r]
          sob == Sobreviventes(src)
          D == tr[r].df
          k == Cardinality({ i \in 1..Len(src) : MalFormada(src[i].data_venda) })
      IN  /\ Len(D) = Len(src) - k
          /\ BagDe([j \in 1..Len(D) |-> D[j].id_venda])
               = BagDe([j \in 1..Len(sob) |-> sob[j].id_venda])
          /\ \A c \in tr[r].dim_cliente :
               \E j \in 1..Len(sob) :
                 sob[j].id_cliente = c.id_cliente
                   /\ sob[j].nome_cliente = c.nome_cliente
          /\ \A p \in tr[r].dim_produto :
               \E j \in 1..Len(sob) : sob[j].id_produto = p.id_produto
          /\ \A o \in tr[r].dim_localidade :
               \E j \in 1..Len(sob) : sob[j].id_localidade = o.id_localidade
          /\ \A t \in tr[r].dim_tempo :
               \E j \in 1..Len(sob) :
                 LET d == Val(sob[j].data_venda)
                 IN  Val(t.data_venda) = [ano |-> d.a, mes |-> d.m, dia |-> d.d]
          /\ Feito(r, "join") =>
               \A f \in Range(fato_vendas[r]) :
                 \E j \in 1..Len(sob) : sob[j].id_venda = f.id_venda

\* A run published facts from a source that had a row with a malformed date.
C4_Witness ==
  \E r \in Execucoes :
    /\ Feito(r, "w_fato_vendas")
    /\ \E i \in 1..Len(df_origem[r]) : MalFormada(df_origem[r][i].data_venda)
    /\ Len(fato_vendas[r]) > 0
    /\ Len(tr[r].df) = Len(df_origem[r]) - 1

\* C5: every null age becomes the integer median of all non-null ages of
\* the whole input (rows dropped later included), or 35 when there is none;
\* a non-null age is kept.
C5_IdadeMediana ==
  \A r \in Execucoes :
    Feito(r, "transformar") =>
      LET src == df_origem[r]
          sob == Sobreviventes(src)
          D == tr[r].df
      IN  /\ Len(D) = Len(sob)
          /\ \A j \in 1..Len(D) :
               /\ D[j].id_venda = sob[j].id_venda
               /\ D[j].idade = IF sob[j].idade = Null
                               THEN Some(MedianaEsperada(src))
                               ELSE sob[j].idade

\* The ages {20, null, 40, 60}: the null was repaired to 40.
C5_Witness ==
  \E r \in Execucoes :
    /\ Feito(r, "transformar")
    /\ Len(df_origem[r]) = 4
    /\ { df_origem[r][i].idade : i \in 1..4 }
         = {Some(20), Null, Some(40), Some(60)}
    /\ \E j \in 1..Len(tr[r].df) :
         /\ Sobreviventes(df_origem[r])[j].idade = Null
         /\ tr[r].df[j].idade = Some(40)

\* C6: null repair then standardisation of genero: "M" gives "Masculino",
\* "F" gives "Feminino", null gives "Não informado", anything else is kept;
\* the result is never null.
C6_GeneroTotal ==
  \A r \in Execucoes :
    Feito(r, "transformar") =>
      LET sob == Sobreviventes(df_origem[r])
          D == tr[r].df
      IN  /\ Len(D) = Len(sob)
          /\ \A j \in 1..Len(D) :
               LET g == sob[j].genero
                   h == D[j].genero
               IN  /\ h # Null
                   /\ g = Some("M") => h = Some("Masculino")
                   /\ g = Some("F") => h = Some("Feminino")
                   /\ g = Null => h = Some("Não informado")
                   /\ g \notin {Some("M"), Some("F"), Null} => h = g

\* One dataset with "M", "F", another code and a null, all four mapped.
C6_Witness ==
  \E r \in Execucoes :
    /\ Feito(r, "transformar")
    /\ { tr[r].df[j].genero : j \in 1..Len(tr[r].df) }
         = {Some("Masculino"), Some("Feminino"), Some("X"),
            Some("Não informado")}
    /\ \E i \in 1..Len(df_origem[r]) : df_origem[r][i].genero = Null

\* C7: two full runs in sequence on an unchanged source leave the same
\* dimension rows and the same fact rows, surrogate keys aside.
C7_Idempotente ==
  \A r \in Execucoes, q \in Execucoes :
    pc[r] = "fim" /\ pc[q] = "fim" =>
      Conteudo(Val(apos[r])) = Conteudo(Val(apos[q]))

\* Both runs ended, facts were published, and the keys of the two dimension
\* publishes differ.
C7_Witness ==
  /\ \A r \in Execucoes : pc[r] = "fim"
  /\ Len(dw.fato_vendas) > 0
  /\ publicado[1]["dim_cliente"] # publicado[2]["dim_cliente"]
  /\ publicado[1]["dim_cliente"] # {}

\* C8: in a run, no dimension is read back before the four dimension
\* writes are done, the join comes after the four read-backs and uses what
\* they observed, the fact write comes after the join, and a run that no
\* other run overlapped reads back exactly the rows it wrote.
C8_OrdemDosEstagios ==
  \A r \in Execucoes :
    LET W == {"w_dim_cliente", "w_dim_produto", "w_dim_localidade",
              "w_dim_tempo"}
        R == {"r_dim_cliente", "r_dim_produto", "r_dim_localidade",
              "r_dim_tempo"}
    IN  /\ feitos[r] \cap R # {} => W \subseteq feitos[r]
        /\ Feito(r, "join") =>
             /\ R \subseteq feitos[r]
             /\ fato_vendas[r] = FatoVendas(tr[r].df, sks[r])
        /\ Feito(r, "w_fato_vendas") => Feito(r, "join")
        /\ sozinha[r] =>
             \A t \in Dims : Feito(r, "r_" \o t) => sks[r][t] = publicado[r][t]

\* A run that no other run overlapped ended after reading back its own
\* non-empty customer dimension.
C8_Witness ==
  \E r \in Execucoes :
    /\ sozinha[r]
    /\ pc[r] = "fim"
    /\ sks[r]["dim_cliente"] # {}
    /\ sks[r]["dim_cliente"] = publicado[r]["dim_cliente"]

C10_ChavesPropriasSeSozinha ==
  \A r \in Execucoes :
    sozinha[r] /\ Feito(r, "join") =>
      \A f \in Range(fato_vendas[r]) :
        \A t \in Dims : f[SkDe(t)] \in ChavesDe(publicado[r][t], t)

\* Run r published a fact table with a customer key that its own dimension
\* publish never assigned and that the other run's publish did.
C10_Witness ==
  \E r \in Execucoes, q \in Execucoes :
    /\ r # q
    /\ Feito(r, "w_fato_vendas")
    /\ dw.fato_vendas = fato_vendas[r]
    /\ \E f \in Range(dw.fato_vendas) :
         /\ f.sk_cliente \notin ChavesDe(publicado[r]["dim_cliente"], "dim_cliente")
         /\ f.sk_cliente \in ChavesDe(publicado[q]["dim_cliente"], "dim_cliente")

====
